---- MODULE Spec2Model ----
(***************************************************************************)
(* A model of the wikipedia client library (wikipedia/wikipedia.py and     *)
(* wikipedia/exceptions.py): the process-wide configuration record and the *)
(* memoized query operations, the request gateway with its rate limiter,   *)
(* the continuation loop, page resolution (missing / redirect /            *)
(* disambiguation / ok) and the lazily loaded page fields.                 *)
(*                                                                         *)
(* The module holds several specifications over one set of variables; each *)
(* drives one sub-system and leaves the variables of the others at rest.   *)
(*   Spec      configuration operations and the memoized query operations  *)
(*   SpecCQ    the continuation loop of WikipediaPage.__continued_query    *)
(*   SpecRL    the request gateway under rate limiting, with a clock       *)
(*   SpecTune  set_timeout and set_rate_limiting among memoized queries    *)
(*   SpecLazy  the lazily loaded fields of a resolved page, with preload   *)
(*   SpecLoad  page resolution: page(), WikipediaPage.__init__ and __load  *)
(*   SpecTree  categorytree: the walk over the upstream's category graph   *)
(*   SpecSection  WikipediaPage.section on the contents of a page          *)
(***************************************************************************)
EXTENDS Integers, Sequences, FiniteSets, TLC

VARIABLES
  G,        \* WIKIPEDIA_GLOBALS, the process-wide configuration record
  fcache,   \* fcache[f]: the _cache dict of the @cache-wrapped function f
  stale,    \* history: the cache keys stored before the last successful
            \*          configuration operation
  ret,      \* the outcome of the call in progress, until the caller takes it
  now,      \* the wall clock (datetime.now()), in ticks
  \* ---- __continued_query
  rounds,         \* the upstream's answers, one per request, in order
  query_params,   \* the generator's base parameters (title parameter merged in)
  last_continue,  \* the generator's continuation state
  requests,       \* history: the parameters of every request sent
  yielded,        \* history: the fragments yielded so far
  cq_pc,          \* "off", "loop", "done" or "raised"
  \* ---- the gateway under rate limiting
  sent_times,     \* history: when the last two answered requests were sent,
                  \*          since rate limiting was last configured
  \* ---- a WikipediaPage object
  self,           \* the object's attributes (absent attributes are Unset)
  page_data,      \* what the upstream holds for the page
  focus,          \* the property the caller goes on to read
  loaded,         \* history: loaded[p] holds the value the first successful
                  \*          access of property p returned
  preloaded,      \* history: the constructor ran its preload loop
  lz_pc,          \* "off", "new" (__load has returned), "ready" (the
                  \* constructor has returned) or "raised"
  \* ---- page resolution
  call,           \* the arguments of the public call being served
  args,           \* the arguments of the __init__ frame being run
  answers,        \* history: the upstream's answers to the info queries
  reqlog,         \* history: the kind of every request sent, in order
  hops,           \* history: the redirects followed
  frames,         \* the __init__ frames below the current one
  ld_pc,          \* "off", "idle", "init", "load", "tail", "done", "raised"
  \* ---- categorytree
  results,        \* the tree under construction: a node, or None, per path
  categories,     \* the page objects fetched so far, per category
  links,          \* the members fetched so far, per category
  walk            \* the call: its arguments, the upstream's category graph,
                  \* the paths still to visit, the failures met, and where
                  \* it stands ("off", "idle", "walk", "fetch", "returned",
                  \* "raised")

varsCfg == <<G, fcache, stale>>
varsCQ == <<rounds, query_params, last_continue, requests, yielded, cq_pc>>

varsLazy == <<self, page_data, focus, loaded, preloaded, lz_pc>>

varsLoad == <<call, args, answers, reqlog, hops, frames, ld_pc>>

varsTree == <<results, categories, links, walk>>

vars == <<varsCfg, ret, now, varsCQ, sent_times, varsLazy, varsLoad, varsTree>>

\* what each specification leaves at rest
restSpec == <<now, varsCQ, sent_times, varsLazy, varsLoad, varsTree>>
restCQ == <<fcache, stale, ret, sent_times, varsLazy, varsLoad, varsTree>>
restRL == <<fcache, stale, varsCQ, varsLazy, varsLoad, varsTree>>
restLazy == <<fcache, stale, now, varsCQ, sent_times, varsLoad, varsTree>>
restLoad == <<stale, now, varsCQ, sent_times, focus, loaded, preloaded, lz_pc, varsTree>>
restTree == <<varsCfg, varsCQ, sent_times, varsLazy, varsLoad>>

(***************************************************************************)
(* Python values.  None is the empty tuple and a present value v is <<v>>, *)
(* so that "is None" tests compare values of one shape.                    *)
(***************************************************************************)
None == <<>>
Some(v) == <<v>>

(***************************************************************************)
(* URLs.  A URL is a sequence of tokens: literal text, or a language       *)
(* segment "/<prefix>." (the only part str.replace in set_lang can match). *)
(***************************************************************************)
Lit(s) == [lit |-> s]
Pfx(p) == [pfx |-> p]

WikipediaURL(p) == <<Lit("http:/"), Pfx(p), Lit("wikipedia.org/w/api.php")>>
EnURL    == WikipediaURL("en")
LocalURL == <<Lit("http://wiki.local/w/api.php")>>
DownURL  == <<Lit("http://down.invalid/w/api.php")>>

\* the language editions that exist upstream
Editions == {"en", "fr"}
\* prefixes a caller may pass to set_lang / set_api_url
Prefixes == {"en", "fr", "FR", "xx"}
\* URLs a caller may pass to set_api_url
CallerURLs == {EnURL, LocalURL, DownURL}

\* str.lower() on the prefixes above
lower(p) == IF p = "FR" THEN "fr" ELSE p

\* url.replace('/{old}.', '/{new}.'): every matching segment is replaced
replace(url, old, new) ==
  [i \in DOMAIN url |-> IF url[i] = Pfx(old) THEN Pfx(new) ELSE url[i]]

(***************************************************************************)
(* The upstream.  An endpoint either serves the MediaWiki API or does not  *)
(* answer with JSON at all (the request raises).  A served endpoint has a  *)
(* version and a set of extensions, reported by its siteinfo.              *)
(***************************************************************************)
Serves(url) == url \in {WikipediaURL(p) : p \in Editions} \cup {LocalURL}

SiteVersion(url) == IF url = LocalURL THEN <<1, 15>>
                    ELSE IF url = WikipediaURL("fr") THEN <<1, 24>>
                    ELSE <<1, 28>>

SiteExtensions(url) == IF url = LocalURL THEN {}
                       ELSE IF url = WikipediaURL("fr") THEN {"TextExtracts", "GeoData"}
                       ELSE {"TextExtracts", "GeoData", "OpenSearch"}

(***************************************************************************)
(* _wiki_request: the request gateway.  `t` is the clock at the call and   *)
(* `up` tells whether the endpoint answers with JSON.  The result carries  *)
(* the outcome ("ok" or the exception raised), the globals and the clock   *)
(* after the call, and whether an HTTP request was sent.                   *)
(***************************************************************************)
TicksPerSecond == 2

\* int(wait_time.total_seconds()) seconds of time.sleep, in ticks
SleepTicks(wait_time) == (wait_time \div TicksPerSecond) * TicksPerSecond

MustWait(g, t) ==
  /\ g.RATE_LIMIT
  /\ g.RATE_LIMIT_LAST_CALL # None
  /\ g.RATE_LIMIT_LAST_CALL[1] + g.RATE_LIMIT_MIN_WAIT[1] > t

\* The wait branch sleeps and then runs a loop over `filtered_lis`, which is
\* not a name of _wiki_request: the loop header raises NameError before the
\* request is sent.
_wiki_request(g, t, up) ==
  IF MustWait(g, t)
  THEN LET wait_time == (g.RATE_LIMIT_LAST_CALL[1] + g.RATE_LIMIT_MIN_WAIT[1]) - t
           woke == t + SleepTicks(wait_time)
       IN [kind |-> "NameError", G |-> g, now |-> woke, sent |-> 0, waited |-> TRUE]
  ELSE LET g1 == IF g.SESSION = None THEN [g EXCEPT !.SESSION = Some("session")] ELSE g
       IN IF ~up
          THEN [kind |-> "RequestError", G |-> g1, now |-> t, sent |-> 1, waited |-> FALSE]
          ELSE [kind |-> "ok",
                G |-> IF g.RATE_LIMIT THEN [g1 EXCEPT !.RATE_LIMIT_LAST_CALL = Some(t)] ELSE g1,
                now |-> t, sent |-> 1, waited |-> FALSE]

\* _cmp_major_minor(version, [major, minor]): the site is older than required
_cmp_major_minor(version, major_minor) ==
  \/ version[1] < major_minor[1]
  \/ version[1] = major_minor[1] /\ version[2] < major_minor[2]

(***************************************************************************)
(* Results of a function body: the value returned or the exception raised, *)
(* with the globals and the caches as the body left them and the number of *)
(* HTTP requests it sent.                                                  *)
(***************************************************************************)
\* (info: the `error` section of the upstream's answer to the body's query,
\* "" when the answer had none or the body never got one; asked: the number
\* of query requests the body sent, the siteinfo probe not counted)
Result(kind, val, g, c, n) ==
  [kind |-> kind, val |-> val, G |-> g, C |-> c, nreq |-> n, info |-> "", asked |-> 0]

\* the JSON an endpoint returns for a query: data of that endpoint
Data(g) == g.API_URL

\* the `error` section an upstream response may carry ("" for none)
ErrorInfos == {"", "HTTP request timed out.", "Pool queue is full", "internal_api_error"}
TimeoutInfos == {"HTTP request timed out.", "Pool queue is full"}

\* str.strip() == '' on the arguments a caller may pass
Args == {"q", ""}
blank(a) == a = ""

\* _get_site_info(): one siteinfo request, then the version and extensions
_get_site_info(g, c, n) ==
  LET r == _wiki_request(g, now, Serves(g.API_URL)) IN
  IF r.kind # "ok" THEN Result(r.kind, None, r.G, c, n + r.sent)
  ELSE Result("ok", None,
              [r.G EXCEPT !.API_VERSION = Some(SiteVersion(g.API_URL)),
                          !.API_VERSION_MAJOR_MINOR = Some(SiteVersion(g.API_URL)),
                          !.INSTALLED_EXTENSIONS = Some(SiteExtensions(g.API_URL))],
              c, n + r.sent)

\* "if WIKIPEDIA_GLOBALS['API_VERSION_MAJOR_MINOR'] is None: _get_site_info()"
EnsureSiteInfo(g, c, n) ==
  IF g.API_VERSION_MAJOR_MINOR = None THEN _get_site_info(g, c, n)
  ELSE Result("ok", None, g, c, n)

TooOld(g, major_minor) == _cmp_major_minor(g.API_VERSION_MAJOR_MINOR[1], major_minor)
Lacks(g, ext) == ext \notin g.INSTALLED_EXTENSIONS[1]

\* one query request and the handling of its `error` section:
\* onTimeout / onError name the exception raised for a timeout info and for
\* any other info ("" when the section is not inspected: the later
\* raw_results['query'] lookup then raises KeyError); a WikipediaException
\* is built from the info and carries it
Query(g, c, n, info, onTimeout, onError) ==
  LET r == _wiki_request(g, now, Serves(g.API_URL))
      kind == IF onError = "" THEN "KeyError"
              ELSE IF info \in TimeoutInfos THEN onTimeout
              ELSE onError
  IN IF r.kind # "ok"
     THEN [Result(r.kind, None, r.G, c, n + r.sent) EXCEPT !.asked = r.sent]
     ELSE IF info = ""
     THEN [Result("ok", Data(g), r.G, c, n + r.sent) EXCEPT !.asked = r.sent]
     ELSE [Result(kind, IF kind = "WikipediaException" THEN Some(info) ELSE None,
                  r.G, c, n + r.sent) EXCEPT !.info = info, !.asked = r.sent]

(***************************************************************************)
(* The @cache wrapper (wikipedia/util.py): a call whose key is in the      *)
(* function's _cache returns the stored value without running the body; a  *)
(* body that returns has its value stored, a body that raises stores       *)
(* nothing.  clear_cache() of a wrapped function empties its _cache.       *)
(***************************************************************************)
Store(m, k, v) == [x \in (DOMAIN m) \cup {k} |-> IF x = k THEN v ELSE m[x]]

cache(f, key, g, c, body) ==
  IF key \in DOMAIN c[f]
  THEN [kind |-> "ok", val |-> c[f][key], G |-> g, C |-> c, nreq |-> 0, hit |-> TRUE,
        info |-> "", asked |-> 0]
  ELSE [kind |-> body.kind, val |-> body.val, G |-> body.G, info |-> body.info,
        asked |-> body.asked,
        C |-> IF body.kind = "ok" THEN [body.C EXCEPT ![f] = Store(@, key, body.val)]
              ELSE body.C,
        nreq |-> body.nreq, hit |-> FALSE]

Functions == {"search", "suggest", "summary", "categorymembers", "geosearch",
              "opensearch", "prefexsearch", "languages"}

\* the functions clear_cache() iterates over
ClearedFunctions == {"search", "suggest", "summary", "categorymembers",
                     "geosearch", "opensearch"}

clear_cache(c) == [f \in DOMAIN c |-> IF f \in ClearedFunctions THEN <<>> ELSE c[f]]

(***************************************************************************)
(* The bodies of the memoized query operations.  `info` is the `error`     *)
(* section of the upstream's answer to the operation's query.              *)
(***************************************************************************)
search(query, g, c, n, info) ==
  LET p == EnsureSiteInfo(g, c, n) IN
  IF p.kind # "ok" THEN p
  ELSE IF TooOld(p.G, <<1, 16>>) THEN Result("WikipediaAPIVersionError", None, p.G, c, p.nreq)
  ELSE IF blank(query) THEN Result("ValueError", None, p.G, c, p.nreq)
  ELSE Query(p.G, c, p.nreq, info, "HTTPTimeoutError", "WikipediaException")

\* line 242 raises HTTPTimeoutError(query), and `query` is not a name of
\* categorymembers: evaluating the argument raises NameError
categorymembers(category, g, c, n, info) ==
  LET p == EnsureSiteInfo(g, c, n) IN
  IF p.kind # "ok" THEN p
  ELSE IF TooOld(p.G, <<1, 17>>) THEN Result("WikipediaAPIVersionError", None, p.G, c, p.nreq)
  ELSE IF blank(category) THEN Result("ValueError", None, p.G, c, p.nreq)
  ELSE Query(p.G, c, p.nreq, info, "NameError", "WikipediaException")

\* radius goes into the query's gsradius as it was passed: no statement of
\* the body compares it with anything
geosearch(latitude, radius, g, c, n, info) ==
  LET p == EnsureSiteInfo(g, c, n) IN
  IF p.kind # "ok" THEN p
  ELSE IF Lacks(p.G, "GeoData") THEN Result("WikipediaExtensionError", None, p.G, c, p.nreq)
  ELSE IF blank(latitude) THEN Result("ValueError", None, p.G, c, p.nreq)
  ELSE Query(p.G, c, p.nreq, info, "HTTPTimeoutError", "WikipediaException")

opensearch(query, g, c, n, info) ==
  LET p == EnsureSiteInfo(g, c, n) IN
  IF p.kind # "ok" THEN p
  ELSE IF TooOld(p.G, <<1, 25>>) THEN Result("WikipediaAPIVersionError", None, p.G, c, p.nreq)
  ELSE IF Lacks(p.G, "OpenSearch") THEN Result("WikipediaExtensionError", None, p.G, c, p.nreq)
  ELSE IF blank(query) THEN Result("ValueError", None, p.G, c, p.nreq)
  ELSE Query(p.G, c, p.nreq, info, "WikipediaException", "WikipediaException")

prefexsearch(query, g, c, n, info) ==
  LET p == EnsureSiteInfo(g, c, n) IN
  IF p.kind # "ok" THEN p
  ELSE IF TooOld(p.G, <<1, 23>>) THEN Result("WikipediaAPIVersionError", None, p.G, c, p.nreq)
  ELSE IF blank(query) THEN Result("ValueError", None, p.G, c, p.nreq)
  ELSE Query(p.G, c, p.nreq, info, "WikipediaException", "WikipediaException")

suggest(query, g, c, n, info) ==
  LET p == EnsureSiteInfo(g, c, n) IN
  IF p.kind # "ok" THEN p
  ELSE IF TooOld(p.G, <<1, 16>>) THEN Result("WikipediaAPIVersionError", None, p.G, c, p.nreq)
  ELSE IF blank(query) THEN Result("ValueError", None, p.G, c, p.nreq)
  ELSE Query(p.G, c, p.nreq, info, "", "")

\* random(): the page count is checked after the site gate; the `error`
\* section is not inspected
random(pages, g, c, n, info) ==
  LET p == EnsureSiteInfo(g, c, n) IN
  IF p.kind # "ok" THEN p
  ELSE IF TooOld(p.G, <<1, 12>>) THEN Result("WikipediaAPIVersionError", None, p.G, c, p.nreq)
  ELSE IF pages < 1 THEN Result("ValueError", None, p.G, c, p.nreq)
  ELSE Query(p.G, c, p.nreq, info, "", "")

\* the cache key of search(title, results=1, suggestion=True), the call page()
\* makes under auto_suggest
SuggestKey(title) == title \o "|results=1|suggestion=True"

\* summary(): page(title) resolves the title (the memoized search, then the
\* page's info query: `landing` is where that resolution ends), then
\* get_summary() requests the extract
Landings == {"ok", "PageError", "DisambiguationError"}

summary(title, g, c, n, info, landing) ==
  LET p == EnsureSiteInfo(g, c, n) IN
  IF p.kind # "ok" THEN p
  ELSE IF Lacks(p.G, "TextExtracts") THEN Result("WikipediaExtensionError", None, p.G, c, p.nreq)
  ELSE IF blank(title) THEN Result("ValueError", None, p.G, c, p.nreq)
  ELSE LET s == cache("search", SuggestKey(title), p.G, c,
                      search(title, p.G, c, p.nreq, info))
       IN IF s.kind # "ok"
          THEN [Result(s.kind, None, s.G, s.C, s.nreq) EXCEPT !.asked = s.asked]
          ELSE LET l == _wiki_request(s.G, now, Serves(s.G.API_URL)) IN
               IF l.kind # "ok"
               THEN [Result(l.kind, None, l.G, s.C, s.nreq + l.sent)
                       EXCEPT !.asked = s.asked + l.sent]
               ELSE IF landing # "ok"
               THEN [Result(landing, None, l.G, s.C, s.nreq + l.sent)
                       EXCEPT !.asked = s.asked + l.sent]
               ELSE LET e == Query(l.G, s.C, s.nreq + l.sent, "", "", "") IN
                    [e EXCEPT !.asked = s.asked + l.sent + @]

languages(g, c, n) ==
  LET r == _wiki_request(g, now, Serves(g.API_URL)) IN
  IF r.kind # "ok" THEN Result(r.kind, None, r.G, c, n + r.sent)
  ELSE Result("ok", Data(g), r.G, c, n + r.sent)

(***************************************************************************)
(* The configuration operations, as functions of the globals and caches.   *)
(***************************************************************************)
\* (a set_lang that records the prefix and leaves the URL as it was)
set_lang_prefix_only(prefix, g, c) ==
  LET old_prefix == g.LANGUAGE_PREFIX
      tmp_url == replace(g.API_URL, old_prefix, lower(prefix))
  IN IF g.API_URL = tmp_url
     THEN Result("WikipediaAPILanguageError", None, g, c, 0)
     ELSE Result("ok", None, [g EXCEPT !.LANGUAGE_PREFIX = lower(prefix)], clear_cache(c), 0)

set_lang(prefix, g, c) ==
  LET old_prefix == g.LANGUAGE_PREFIX
      tmp_url == replace(g.API_URL, old_prefix, lower(prefix))
  IN IF g.API_URL = tmp_url
     THEN Result("WikipediaAPILanguageError", None, g, c, 0)
     ELSE LET langs == cache("languages", "", g, c, languages(g, c, 0)) IN
          IF langs.kind # "ok"
          THEN Result("WikipediaAPIURLError", None, langs.G, langs.C, langs.nreq)
          ELSE Result("ok", None,
                      [langs.G EXCEPT !.LANGUAGE_PREFIX = lower(prefix),
                                      !.API_URL = tmp_url],
                      clear_cache(langs.C), langs.nreq)

set_api_url(api_url, prefix, g, c) ==
  LET g1 == [g EXCEPT !.API_URL = api_url, !.LANGUAGE_PREFIX = prefix]
      c1 == clear_cache(c)
      langs == cache("languages", "", g1, c1, languages(g1, c1, 0))
  IN IF langs.kind # "ok"
     THEN Result("WikipediaAPIURLError", None, langs.G, langs.C, langs.nreq)
     ELSE _get_site_info(langs.G, langs.C, langs.nreq)

(***************************************************************************)
(* Specification Spec: configuration changes and memoized queries.         *)
(***************************************************************************)
InitGlobals ==
  [API_URL |-> EnURL,
   API_VERSION |-> None,
   API_VERSION_MAJOR_MINOR |-> None,
   INSTALLED_EXTENSIONS |-> None,
   LANGUAGE_PREFIX |-> "en",
   RATE_LIMIT |-> FALSE,
   RATE_LIMIT_MIN_WAIT |-> None,
   RATE_LIMIT_LAST_CALL |-> None,
   USER_AGENT |-> "python-mediawiki/1.4.5",
   SESSION |-> None,
   TIMEOUT |-> None]

Outcome(op, arg, r, hit) ==
  [op |-> op, arg |-> arg, kind |-> r.kind, val |-> r.val, hit |-> hit, nreq |-> r.nreq,
   info |-> r.info, asked |-> r.asked]

NoCall == [op |-> "", arg |-> "", kind |-> "ok", val |-> None, hit |-> FALSE, nreq |-> 0]

\* what a caller may pass as geosearch's radius and as random's pages, as
\* written, and the integers they denote
RadiusArgs == {"5", "1000"}
PagesArgs == {"0", "1"}
int(s) == CASE s = "0" -> 0 [] s = "1" -> 1 [] s = "5" -> 5 [] s = "1000" -> 1000

\* the cache key of geosearch(latitude, longitude, radius=radius)
GeoKey(latitude, radius) == latitude \o "|radius=" \o radius

Keys(c) == {k \in Functions \X (Args \cup {SuggestKey(a) : a \in Args}
                                     \cup {GeoKey(a, r) : a \in Args, r \in RadiusArgs}) :
              k[2] \in DOMAIN c[k[1]]}

InitCfg ==
  /\ G = InitGlobals
  /\ fcache = [f \in Functions |-> <<>>]
  /\ stale = {}

\* no continued query is running
IdleCQ ==
  /\ rounds = <<>>
  /\ query_params = <<>>
  /\ last_continue = <<>>
  /\ requests = <<>>
  /\ yielded = <<>>
  /\ cq_pc = "off"

\* no page object exists
IdleLazy ==
  /\ self = <<>>
  /\ page_data = <<>>
  /\ focus = ""
  /\ loaded = <<>>
  /\ preloaded = FALSE
  /\ lz_pc = "off"

\* no page is being resolved
IdleLoad ==
  /\ call = <<>>
  /\ args = <<>>
  /\ answers = <<>>
  /\ reqlog = <<>>
  /\ hops = 0
  /\ frames = 0
  /\ ld_pc = "off"

\* no category tree is being built
IdleTree ==
  /\ results = <<>>
  /\ categories = <<>>
  /\ links = <<>>
  /\ walk = <<>>

\* a call of the @cache-wrapped function f with argument arg
Call(f, arg, body) ==
  LET r == cache(f, arg, G, fcache, body) IN
  /\ ret = NoCall
  /\ G' = r.G
  /\ fcache' = r.C
  /\ stale' = stale \cap Keys(r.C)
  /\ ret' = Outcome(f, arg, r, r.hit)
  /\ UNCHANGED restSpec

CallSearch ==
  \E a \in Args, info \in ErrorInfos :
    Call("search", a, search(a, G, fcache, 0, info))

CallSuggest ==
  \E a \in Args, info \in ErrorInfos :
    Call("suggest", a, suggest(a, G, fcache, 0, info))

CallSummary ==
  \E a \in Args, info \in ErrorInfos, landing \in Landings :
    Call("summary", a, summary(a, G, fcache, 0, info, landing))

CallCategorymembers ==
  \E a \in Args, info \in ErrorInfos :
    Call("categorymembers", a, categorymembers(a, G, fcache, 0, info))

CallGeosearch ==
  \E a \in Args, radius \in RadiusArgs, info \in ErrorInfos :
    Call("geosearch", GeoKey(a, radius), geosearch(a, int(radius), G, fcache, 0, info))

\* random() is not memoized: the globals are all it can change
CallRandom ==
  \E pages \in PagesArgs, info \in ErrorInfos :
    LET r == random(int(pages), G, fcache, 0, info) IN
    /\ ret = NoCall
    /\ G' = r.G
    /\ ret' = Outcome("random", pages, r, FALSE)
    /\ UNCHANGED <<fcache, stale, restSpec>>

CallOpensearch ==
  \E a \in Args, info \in ErrorInfos :
    Call("opensearch", a, opensearch(a, G, fcache, 0, info))

CallPrefexsearch ==
  \E a \in Args, info \in ErrorInfos :
    Call("prefexsearch", a, prefexsearch(a, G, fcache, 0, info))

\* a configuration operation; when it returns, every entry still cached
\* predates the change
Configure(op, arg, r) ==
  /\ ret = NoCall
  /\ G' = r.G
  /\ fcache' = r.C
  /\ stale' = IF r.kind = "ok" THEN Keys(r.C) ELSE stale \cap Keys(r.C)
  /\ ret' = Outcome(op, arg, r, FALSE)
  /\ UNCHANGED restSpec

SetLang ==
  \E prefix \in Prefixes :
    Configure("set_lang", prefix, set_lang(prefix, G, fcache))

SetApiUrl ==
  \E api_url \in CallerURLs, prefix \in Prefixes :
    Configure("set_api_url", prefix, set_api_url(api_url, prefix, G, fcache))

\* the caller takes the outcome of the call it made
Return ==
  /\ ret # NoCall
  /\ ret' = NoCall
  /\ UNCHANGED <<varsCfg, restSpec>>

Next ==
  \/ Return
  \/ CallSearch
  \/ CallSuggest
  \/ CallSummary
  \/ CallCategorymembers
  \/ CallGeosearch
  \/ CallOpensearch
  \/ CallPrefexsearch
  \/ CallRandom
  \/ SetLang
  \/ SetApiUrl

Init ==
  /\ InitCfg /\ ret = NoCall /\ now = 0 /\ IdleCQ /\ sent_times = <<>> /\ IdleLazy /\ IdleLoad
  /\ IdleTree

Spec == Init /\ [][Next]_vars

(***************************************************************************)
(* Claims settled under Spec.                                              *)
(***************************************************************************)
MemoizedQueries == {"search", "suggest", "summary", "categorymembers",
                    "geosearch", "opensearch", "prefexsearch"}

\* C1: for each memoized query operation, a call made after a successful
\* set_lang or set_api_url never returns a value that was cached before that
\* configuration change.
C1_NoStaleValueAfterConfigChange ==
  (ret.op \in MemoizedQueries /\ ret.hit) => <<ret.op, ret.arg>> \notin stale

\* the operations that inspect the `error` section of the answer
ErrorInspecting == {"search", "categorymembers", "geosearch"}

\* C11: when the upstream's answer to search, categorymembers or geosearch
\* carries an error section, the call fails with HTTPTimeoutError if the info
\* is 'HTTP request timed out.' or 'Pool queue is full', and with a
\* WikipediaException carrying the info otherwise; no other exception type
\* results.
C11_UpstreamErrorMapsToTimeoutOrGeneric ==
  (ret.op \in ErrorInspecting /\ ret.info # "") =>
     IF ret.info \in TimeoutInfos THEN ret.kind = "HTTPTimeoutError"
     ELSE ret.kind = "WikipediaException" /\ ret.val = Some(ret.info)

\* the arguments each operation is to reject
InvalidArgs(op) ==
  CASE op = "geosearch" ->
         {GeoKey(a, r) : a \in {x \in Args : blank(x)}, r \in RadiusArgs}
           \cup {GeoKey(a, r) : a \in Args, r \in {x \in RadiusArgs : int(x) \notin 10..10000}}
    [] op = "random" -> {x \in PagesArgs : int(x) < 1}
    [] OTHER -> {x \in Args : blank(x)}

ArgumentChecking == {"search", "suggest", "opensearch", "prefexsearch", "summary",
                     "categorymembers", "geosearch", "random"}

\* what a call raises when the site probe fails or the site is too old or
\* lacks the extension: these come before the argument is looked at
SiteErrors == {"RequestError", "WikipediaAPIVersionError", "WikipediaExtensionError"}

\* C12: an invalid argument (a blank query, title or category in search,
\* suggest, opensearch, prefexsearch, summary and categorymembers; a geosearch
\* radius outside 10..10000; a page count below 1 in random) is rejected with
\* ValueError before any query request is sent to the upstream.
C12_InvalidArgumentRejectedBeforeQuery ==
  (ret.op \in ArgumentChecking /\ ret.arg \in InvalidArgs(ret.op)
     /\ ret.kind \notin SiteErrors)
    => ret.kind = "ValueError" /\ ret.asked = 0

\* C15: a successful set_lang(p) sets LANGUAGE_PREFIX to p lower-cased and
\* API_URL to the previous URL with the segment '/<old prefix>.' replaced by
\* '/<p lower-cased>.' (from the default 'en' endpoint, set_lang('fr') gives
\* 'http://fr.wikipedia.org/w/api.php'); when that replacement leaves the
\* URL unchanged, set_lang fails with WikipediaAPILanguageError.
C15_SetLangRewritesPrefixAndUrl ==
  [][(ret = NoCall /\ ret'.op = "set_lang") =>
       LET p == IF ret'.arg = "FR" THEN "fr" ELSE ret'.arg
           url == [i \in DOMAIN G.API_URL |->
                     IF G.API_URL[i] = Pfx(G.LANGUAGE_PREFIX) THEN Pfx(p) ELSE G.API_URL[i]]
       IN /\ ret'.kind = "ok" => G'.LANGUAGE_PREFIX = p /\ G'.API_URL = url
          /\ url = G.API_URL => ret'.kind = "WikipediaAPILanguageError"
          /\ (ret'.kind = "ok" /\ G.API_URL = EnURL /\ G.LANGUAGE_PREFIX = "en"
                /\ ret'.arg = "fr") =>
               G'.API_URL = <<Lit("http:/"), Pfx("fr"), Lit("wikipedia.org/w/api.php")>>
     ]_vars

\* set_lang('FR') has succeeded from the 'en' endpoint
C15_Witness ==
  /\ ret.op = "set_lang" /\ ret.arg = "FR" /\ ret.kind = "ok"
  /\ G.LANGUAGE_PREFIX = "fr"
  /\ G.API_URL = <<Lit("http:/"), Pfx("fr"), Lit("wikipedia.org/w/api.php")>>

\* C22: a configuration change that fails leaves the configuration as it
\* was: when set_lang or set_api_url raises WikipediaAPIURLError or
\* WikipediaAPILanguageError, API_URL and LANGUAGE_PREFIX hold the values
\* they had before the call.
C22_FailedChangeKeepsConfiguration ==
  [][(ret = NoCall /\ ret'.op \in {"set_lang", "set_api_url"}
        /\ ret'.kind \in {"WikipediaAPIURLError", "WikipediaAPILanguageError"}) =>
       /\ G'.API_URL = G.API_URL
       /\ G'.LANGUAGE_PREFIX = G.LANGUAGE_PREFIX
     ]_vars

\* C23: whenever API_VERSION_MAJOR_MINOR / INSTALLED_EXTENSIONS are
\* populated they come from a site-info probe of the current API_URL: a
\* successful set_lang or set_api_url never leaves the values probed from
\* the previous endpoint in force.
C23_SiteInfoIsOfCurrentEndpoint ==
  (Serves(G.API_URL) /\ G.API_VERSION_MAJOR_MINOR # None) =>
     /\ G.API_VERSION_MAJOR_MINOR = Some(SiteVersion(G.API_URL))
     /\ G.INSTALLED_EXTENSIONS = Some(SiteExtensions(G.API_URL))

(***************************************************************************)
(* WikipediaPage.__continued_query.  The upstream's answer to a request is *)
(* a record: whether it has a `query` section, the records that section    *)
(* holds for this query (every page of a generator query, or the array at  *)
(* pages[pageid][prop], which .get(prop, list()) makes empty when absent), *)
(* and its `continue` section, if any.                                     *)
(***************************************************************************)
MaxRounds == 3
MaxFrags == 2

\* dict.update: the entries of b override those of a
Update(a, b) ==
  [k \in (DOMAIN a) \cup (DOMAIN b) |-> IF k \in DOMAIN b THEN b[k] ELSE a[k]]

\* the base parameters of the images property (a generator query) and of the
\* links property, after query_params.update(self.__title_query_param)
BaseParams ==
  { [generator |-> "images", gimlimit |-> "max", prop |-> "imageinfo",
     iiprop |-> "url", titles |-> "A"],
    [prop |-> "links", plnamespace |-> "0", pllimit |-> "max", titles |-> "A"] }

\* `continue` sections an upstream may send
ContinueSections ==
  { [plcontinue |-> "736|0|Next"],
    [continue |-> "gimcontinue||", gimcontinue |-> "736|File.png"],
    <<>> }

\* the j-th record of the upstream's i-th answer
Fragment(i, j) == <<i, j>>

\* an answer: n is the number of records its `query` section holds
RoundShapes ==
  { [query |-> FALSE, n |-> 0, continue |-> None] }
  \cup
  { [query |-> TRUE, n |-> n, continue |-> c] :
      n \in 0..MaxFrags, c \in {None} \cup {Some(x) : x \in ContinueSections} }

\* the records of the i-th answer, in the order the loop yields them
Items(i, request) == [j \in 1..request.n |-> Fragment(i, j)]

\* the upstream ends every sequence: its last answer carries no `continue`
Fixtures ==
  UNION { { f \in [1..n -> RoundShapes] : f[n].continue = None } : n \in 1..MaxRounds }

\* what _wiki_request adds to the parameters it is given
Sent(params) ==
  LET p == Update(params, [format |-> "json"]) IN
  IF "action" \in DOMAIN p THEN p ELSE Update(p, [action |-> "query"])

\* "params = query_params.copy(); params.update(last_continue)"
RoundParams(base, cont) == Update(base, cont)

\* a loop that accumulated the continuation sections instead of replacing them
NextContinueAccumulating(cont, section) == Update(cont, section)

\* "last_continue = request['continue']"
NextContinue(cont, section) == section

InitCQ ==
  /\ G = InitGlobals /\ fcache = [f \in Functions |-> <<>>] /\ stale = {}
  /\ ret = NoCall /\ now = 0 /\ sent_times = <<>> /\ IdleLazy /\ IdleLoad /\ IdleTree
  /\ rounds \in Fixtures
  /\ query_params \in BaseParams
  /\ last_continue = <<>>
  /\ requests = <<>>
  /\ yielded = <<>>
  /\ cq_pc = "loop"

\* one pass of the `while True` loop: a request, its fragments, the decision
Round ==
  /\ cq_pc = "loop"
  /\ Len(requests) < Len(rounds)
  /\ LET params == RoundParams(query_params, last_continue)
         r == _wiki_request(G, now, TRUE)
         i == Len(requests) + 1
         request == rounds[i]
     IN /\ r.kind = "ok"
        /\ G' = r.G
        /\ now' = r.now
        /\ requests' = Append(requests, Sent(params))
        /\ IF ~request.query
           THEN /\ cq_pc' = "done"
                /\ UNCHANGED <<yielded, last_continue>>
           ELSE /\ yielded' = yielded \o Items(i, request)
                /\ IF request.continue = None
                   THEN cq_pc' = "done" /\ UNCHANGED last_continue
                   ELSE /\ cq_pc' = "loop"
                        /\ last_continue' = NextContinue(last_continue, request.continue[1])
  /\ UNCHANGED <<rounds, query_params, restCQ>>

\* a request that does not come back: the exception leaves the generator
RoundRaises ==
  /\ cq_pc = "loop"
  /\ Len(requests) < Len(rounds)
  /\ LET r == _wiki_request(G, now, FALSE)
     IN /\ G' = r.G
        /\ now' = r.now
        /\ requests' = Append(requests, Sent(RoundParams(query_params, last_continue)))
        /\ cq_pc' = "raised"
  /\ UNCHANGED <<rounds, query_params, last_continue, yielded, restCQ>>

NextCQ == Round \/ RoundRaises

SpecCQ == InitCQ /\ [][NextCQ]_vars

(***************************************************************************)
(* Claims settled under SpecCQ.                                            *)
(***************************************************************************)
\* every answer has a `query` section, all but the last carry `continue`
EveryRoundAnswers(f) ==
  /\ \A i \in 1..Len(f) : f[i].query
  /\ \A i \in 1..(Len(f) - 1) : f[i].continue # None
  /\ f[Len(f)].continue = None

RECURSIVE FragmentsUpTo(_, _)
FragmentsUpTo(f, k) ==
  IF k = 0 THEN <<>> ELSE FragmentsUpTo(f, k - 1) \o Items(k, f[k])

\* C3: over N >= 1 answers that all have a `query` section, the first N-1
\* carrying `continue` and the last one not, the continued query yields the
\* answers' fragments concatenated in order and sends exactly N requests;
\* request 1 carries the base parameters alone and request k+1 the base
\* parameters merged with exactly the `continue` section of answer k.
C3_ContinuedQueryConcatenates ==
  (cq_pc = "done" /\ EveryRoundAnswers(rounds)) =>
    /\ yielded = FragmentsUpTo(rounds, Len(rounds))
    /\ Len(requests) = Len(rounds)
    /\ requests[1] = Sent(query_params)
    /\ \A k \in 1..(Len(rounds) - 1) :
         requests[k + 1] = Sent(Update(query_params, rounds[k].continue[1]))

\* three answers carrying 2, 2 and 1 fragments have been consumed
C3_Witness ==
  /\ cq_pc = "done"
  /\ EveryRoundAnswers(rounds)
  /\ Len(rounds) = 3
  /\ <<rounds[1].n, rounds[2].n, rounds[3].n>> = <<2, 2, 1>>
  /\ Len(yielded) = 5
  /\ Len(requests) = 3

(***************************************************************************)
(* Specification SpecRL: the gateway under rate limiting.  The clock       *)
(* advances between calls (Tick) and while the gateway sleeps.             *)
(***************************************************************************)
MaxTime == 4

\* min_wait values a caller may pass, in ticks: half a second (the sleep of
\* int(0.5) seconds is no sleep at all) and a second and a half
MinWaits == {1, 3}

set_rate_limiting(rate_limit, min_wait, g) ==
  [g EXCEPT !.RATE_LIMIT = rate_limit,
            !.RATE_LIMIT_MIN_WAIT = IF ~rate_limit THEN None ELSE Some(min_wait),
            !.RATE_LIMIT_LAST_CALL = None]

InitRL ==
  /\ InitCfg /\ IdleCQ /\ IdleLazy /\ IdleLoad /\ IdleTree
  /\ ret = NoCall
  /\ now = 0
  /\ sent_times = <<>>

Tick ==
  /\ now < MaxTime
  /\ now' = now + 1
  /\ UNCHANGED <<G, ret, sent_times, restRL>>

SetRateLimiting ==
  \E rate_limit \in BOOLEAN, min_wait \in MinWaits :
    /\ G' = set_rate_limiting(rate_limit, min_wait, G)
    /\ ret' = [op |-> "set_rate_limiting", arg |-> "", kind |-> "ok", val |-> None,
               hit |-> FALSE, nreq |-> 0]
    /\ sent_times' = <<>>
    /\ UNCHANGED <<now, restRL>>

\* one call of _wiki_request issued within the observed time window; `up`:
\* the endpoint answers
Request ==
  \E up \in BOOLEAN :
    LET r == _wiki_request(G, now, up) IN
    /\ now <= MaxTime
    /\ G' = r.G
    /\ now' = r.now
    /\ ret' = [op |-> "_wiki_request", arg |-> "", kind |-> r.kind, val |-> None,
               hit |-> FALSE, nreq |-> r.sent,
               limited |-> G.RATE_LIMIT, waited |-> r.waited, up |-> up, at |-> r.now,
               due |-> IF r.waited
                       THEN G.RATE_LIMIT_LAST_CALL[1] + G.RATE_LIMIT_MIN_WAIT[1]
                       ELSE r.now]
    /\ sent_times' = IF r.kind = "ok" /\ G.RATE_LIMIT
                     THEN IF sent_times = <<>> THEN <<r.now>>
                          ELSE <<sent_times[Len(sent_times)], r.now>>
                     ELSE sent_times
    /\ UNCHANGED restRL

NextRL == Tick \/ SetRateLimiting \/ Request

SpecRL == InitRL /\ [][NextRL]_vars

(***************************************************************************)
(* Claims settled under SpecRL.                                            *)
(***************************************************************************)
\* C10: with rate limiting enabled with minimum interval W, a request issued
\* less than W after the previous request's recorded timestamp waits until
\* last-call + W has passed, is then sent and returns its response without
\* an error, so two consecutive requests are sent at least W apart.
C10_WaitThenSend ==
  /\ (ret.op = "_wiki_request" /\ ret.waited /\ ret.up) =>
        (ret.kind = "ok" /\ ret.nreq = 1 /\ ret.at >= ret.due)
  /\ (G.RATE_LIMIT /\ Len(sent_times) = 2) =>
        sent_times[2] - sent_times[1] >= G.RATE_LIMIT_MIN_WAIT[1]

(***************************************************************************)
(* Specification SpecTune: set_timeout and set_rate_limiting between calls *)
(* of memoized queries.  `stale` holds the keys stored before the last of  *)
(* these two operations.                                                   *)
(***************************************************************************)
\* timeouts a caller may pass, in seconds (None: no timeout)
Timeouts == {None, Some(5)}

set_timeout(timeout, g) == [g EXCEPT !.TIMEOUT = timeout]

SetTimeout ==
  \E timeout \in Timeouts :
    Configure("set_timeout", "", Result("ok", None, set_timeout(timeout, G), fcache, 0))

ToggleRateLimiting ==
  \E rate_limit \in BOOLEAN, min_wait \in MinWaits :
    Configure("set_rate_limiting", "",
              Result("ok", None, set_rate_limiting(rate_limit, min_wait, G), fcache, 0))

NextTune ==
  \/ Return
  \/ CallSearch
  \/ CallCategorymembers
  \/ SetTimeout
  \/ ToggleRateLimiting

SpecTune == Init /\ [][NextTune]_vars

(***************************************************************************)
(* Claims settled under SpecTune.                                          *)
(***************************************************************************)
\* C16: every explicit mutation of the configuration record, toggling rate
\* limiting (set_rate_limiting) and setting the timeout (set_timeout)
\* included, invalidates all the caches of the memoized operations: after
\* such a call no memoized operation returns a value cached before it.
C16_EveryMutationInvalidatesCaches ==
  ~(ret.op \in MemoizedQueries /\ ret.hit /\ <<ret.op, ret.arg>> \in stale)

(***************************************************************************)
(* The page object.  An attribute is absent (Unset), None, or holds a      *)
(* value; text and lists are sequences, so that "" and [] are <<>>.        *)
(***************************************************************************)
Unset == [a |-> "unset"]
PyNone == [a |-> "None"]
Val(v) == [a |-> "val", v |-> v]

\* "not getattr(self, name, False)": absent, None, '' and [] are all falsy
Falsy(x) == x = Unset \/ x = PyNone \/ x = Val(<<>>)

\* the properties the constructor's preload loop reads, in its order
PreloadProps == <<"content", "summary", "images", "references", "links", "sections",
                  "redirects", "coordinates", "backlinks", "categories">>
Props == {PreloadProps[i] : i \in DOMAIN PreloadProps}

\* the attribute behind a property
Attr(prop) == "_" \o prop

Attributes == {"title", "original_title", "pageid", "url", "_revision_id", "_parent_id", "_revid", "_parentid"}
                \cup {Attr(p) : p \in Props}

\* what the upstream holds for a page: its extract, the number of fragments
\* each of its lists is served in, and whether it has coordinates
PageData == {[extract |-> <<>>, frags |-> 0, coordinates |-> FALSE]}
              \cup {[extract |-> <<"text">>, frags |-> k, coordinates |-> TRUE] :
                      k \in 1..MaxFrags}

\* the list made of the first k fragments
Listed(k) == [i \in 1..k |-> i]

\* the outcome of a property access: "ok" or the exception raised, and the
\* object and the globals as the access left them
Got(kind, obj, g, n) == [kind |-> kind, self |-> obj, G |-> g, nreq |-> n]

(***************************************************************************)
(* The lazy properties.  `at` is the request of the access that the        *)
(* endpoint fails to answer (0: every request is answered).                *)
(***************************************************************************)
WikipediaPage_content(obj, g, pd, at) ==
  IF ~Falsy(obj["_content"]) THEN Got("ok", obj, g, 0)
  ELSE LET o1 == [obj EXCEPT !["_content"] = PyNone, !["_revision_id"] = PyNone,
                             !["_parent_id"] = PyNone]
       IN IF TooOld(g, <<1, 11>>) THEN Got("WikipediaAPIVersionError", o1, g, 0)
          ELSE IF Lacks(g, "TextExtracts") THEN Got("WikipediaExtensionError", o1, g, 0)
          ELSE LET r == _wiki_request(g, now, at # 1) IN
               IF r.kind # "ok" THEN Got(r.kind, o1, r.G, r.sent)
               ELSE Got("ok", [o1 EXCEPT !["_content"] = Val(pd.extract),
                                         !["_revision_id"] = Val(<<"revid">>),
                                         !["_parent_id"] = Val(<<"parentid">>)],
                        r.G, r.sent)

\* neither _revid nor _parentid is ever assigned: both always read content
WikipediaPage_revision_id(obj, g, pd, at) ==
  IF ~Falsy(obj["_revid"]) THEN Got("ok", obj, g, 0)
  ELSE WikipediaPage_content(obj, g, pd, at)

WikipediaPage_parent_id(obj, g, pd, at) ==
  IF ~Falsy(obj["_parentid"]) THEN Got("ok", obj, g, 0)
  ELSE WikipediaPage_content(obj, g, pd, at)

get_summary(obj, g, pd, at) ==
  IF Lacks(g, "TextExtracts") THEN Got("WikipediaExtensionError", obj, g, 0)
  ELSE LET r == _wiki_request(g, now, at # 1) IN
       IF r.kind # "ok" THEN Got(r.kind, obj, r.G, r.sent)
       ELSE Got("ok", [obj EXCEPT !["_summary"] = Val(pd.extract)], r.G, r.sent)

WikipediaPage_summary(obj, g, pd, at) ==
  IF ~Falsy(obj["_summary"]) THEN Got("ok", obj, g, 0)
  ELSE get_summary([obj EXCEPT !["_summary"] = PyNone], g, pd, at)

\* a list filled by appending while the answers of a continued query come
\* in: a failing request leaves the fragments appended so far in the list
ContinuedList(obj, attr, g, pd, at) ==
  LET n == IF pd.frags = 0 THEN 1 ELSE pd.frags
      failed == at \in 1..n
      r == _wiki_request(g, now, ~failed)
  IN Got(r.kind, [obj EXCEPT ![attr] = Val(Listed(IF failed THEN at - 1 ELSE pd.frags))],
         r.G, IF failed THEN at ELSE n)

\* the common shape of references, links, categories, redirects, backlinks
GatedList(obj, attr, g, pd, at, major_minor) ==
  IF ~Falsy(obj[attr]) THEN Got("ok", obj, g, 0)
  ELSE LET o1 == [obj EXCEPT ![attr] = PyNone] IN
       IF TooOld(g, major_minor) THEN Got("WikipediaAPIVersionError", o1, g, 0)
       ELSE ContinuedList(o1, attr, g, pd, at)

WikipediaPage_images(obj, g, pd, at) ==
  IF ~Falsy(obj["_images"]) THEN Got("ok", obj, g, 0)
  ELSE ContinuedList(obj, "_images", g, pd, at)

WikipediaPage_coordinates(obj, g, pd, at) ==
  IF ~Falsy(obj["_coordinates"]) THEN Got("ok", obj, g, 0)
  ELSE LET o1 == [obj EXCEPT !["_coordinates"] = PyNone] IN
       IF Lacks(g, "GeoData") THEN Got("WikipediaExtensionError", o1, g, 0)
       ELSE LET r == _wiki_request(g, now, at # 1) IN
            IF r.kind # "ok" THEN Got(r.kind, o1, r.G, r.sent)
            ELSE IF pd.coordinates
            THEN Got("ok", [o1 EXCEPT !["_coordinates"] = Val(<<"lat", "lon">>)], r.G, r.sent)
            ELSE Got("ok", o1, r.G, r.sent)

WikipediaPage_references(obj, g, pd, at) == GatedList(obj, "_references", g, pd, at, <<1, 13>>)
WikipediaPage_links(obj, g, pd, at) == GatedList(obj, "_links", g, pd, at, <<1, 13>>)
WikipediaPage_categories(obj, g, pd, at) == GatedList(obj, "_categories", g, pd, at, <<1, 14>>)
WikipediaPage_redirects(obj, g, pd, at) == GatedList(obj, "_redirects", g, pd, at, <<1, 24>>)
WikipediaPage_backlinks(obj, g, pd, at) == GatedList(obj, "_backlinks", g, pd, at, <<1, 9>>)

WikipediaPage_sections(obj, g, pd, at) ==
  IF ~Falsy(obj["_sections"]) THEN Got("ok", obj, g, 0)
  ELSE LET r == _wiki_request(g, now, at # 1) IN
       IF r.kind # "ok" THEN Got(r.kind, obj, r.G, r.sent)
       ELSE Got("ok", [obj EXCEPT !["_sections"] = Val(Listed(pd.frags))], r.G, r.sent)

\* getattr(self, prop): the property's getter
getattr(obj, prop, g, pd, at) ==
  CASE prop = "content" -> WikipediaPage_content(obj, g, pd, at)
    [] prop = "revision_id" -> WikipediaPage_revision_id(obj, g, pd, at)
    [] prop = "parent_id" -> WikipediaPage_parent_id(obj, g, pd, at)
    [] prop = "summary" -> WikipediaPage_summary(obj, g, pd, at)
    [] prop = "images" -> WikipediaPage_images(obj, g, pd, at)
    [] prop = "references" -> WikipediaPage_references(obj, g, pd, at)
    [] prop = "links" -> WikipediaPage_links(obj, g, pd, at)
    [] prop = "sections" -> WikipediaPage_sections(obj, g, pd, at)
    [] prop = "redirects" -> WikipediaPage_redirects(obj, g, pd, at)
    [] prop = "coordinates" -> WikipediaPage_coordinates(obj, g, pd, at)
    [] prop = "backlinks" -> WikipediaPage_backlinks(obj, g, pd, at)
    [] prop = "categories" -> WikipediaPage_categories(obj, g, pd, at)

\* the value a getter that did not raise returns
Returned(obj, prop) == obj[Attr(prop)]

\* a request the endpoint fails to answer: request `at` of the access of
\* property `prop`
NoFault == [prop |-> "", at |-> 0]
Faults == {NoFault} \cup [prop : Props, at : 1..MaxFrags]

\* the exceptions the preload loop passes over
SwallowedAny(kind) == TRUE

Swallowed(kind) == kind \in {"WikipediaAPIVersionError", "WikipediaExtensionError"}

\* one pass of the preload loop: the access of property prop from the loop
\* state st; st.got collects the values of the accesses that returned
preload_pass(st, prop, pd, fault) ==
  LET r == getattr(st.self, prop, st.G, pd, IF fault.prop = prop THEN fault.at ELSE 0)
      n == st.nreq + r.nreq
  IN IF r.kind = "ok"
     THEN [kind |-> "ok", self |-> r.self, G |-> r.G, nreq |-> n,
           got |-> Update(st.got, prop :> Returned(r.self, prop))]
     ELSE [st EXCEPT !.kind = IF Swallowed(r.kind) THEN "ok" ELSE r.kind,
                     !.self = r.self, !.G = r.G, !.nreq = n]

\* the preload loop from its i-th property on, from the loop state st0 (bound
\* to st so that it is evaluated once per pass)
RECURSIVE preload(_, _, _, _)
preload(i, st0, pd, fault) ==
  CHOOSE out \in
    { IF i > Len(PreloadProps) \/ st.kind # "ok" THEN st
      ELSE preload(i + 1, preload_pass(st, PreloadProps[i], pd, fault), pd, fault) :
        st \in {st0} } : TRUE

(***************************************************************************)
(* Specification SpecLazy: a page that __load has just resolved, on an     *)
(* endpoint whose site info has been probed; the constructor finishes      *)
(* (with or without preload) and the caller reads properties.              *)
(***************************************************************************)
EmptyCaches == [f \in Functions |-> <<>>]

\* the endpoints a program may be configured for when it builds a page: the
\* default one, a local wiki after set_api_url, the French edition after
\* set_lang
Sites ==
  { EnsureSiteInfo(InitGlobals, EmptyCaches, 0),
    set_api_url(LocalURL, "en", InitGlobals, EmptyCaches),
    LET l == set_lang("fr", InitGlobals, EmptyCaches) IN EnsureSiteInfo(l.G, l.C, 0) }

\* the properties a caller interested in `prop` reads
Readable(prop) == IF prop = "content" THEN {"content", "revision_id", "parent_id"}
                  ELSE {prop}

\* the k-th page of the wiki: its canonical title, its pageid and its url;
\* RawTitle is a spelling of the first title that the wiki normalizes
Title(k) == <<"T", k>>
RawTitle == <<"t", 1>>
Id(k) == <<"id", k>>
Url(k) == <<"url", k>>

Resolved == [a \in Attributes |->
               IF a \in {"title", "original_title"} THEN Val(Title(1))
               ELSE IF a = "pageid" THEN Val(Id(1))
               ELSE IF a = "url" THEN Val(Url(1))
               ELSE Unset]

InitLazy ==
  /\ now = 0 /\ stale = {} /\ IdleCQ /\ sent_times = <<>> /\ IdleLoad /\ IdleTree
  /\ ret = NoCall
  /\ \E site \in Sites : G = site.G /\ fcache = site.C
  /\ self = Resolved
  /\ page_data \in PageData
  /\ focus \in Props
  /\ loaded = [p \in {} |-> None]
  /\ preloaded = FALSE
  /\ lz_pc = "new"

\* the rest of __init__ after __load has returned
Construct ==
  \E preload_arg \in BOOLEAN, fault \in Faults :
    LET st0 == [kind |-> "ok", self |-> self, G |-> G, nreq |-> 0, got |-> <<>>]
        st == IF preload_arg THEN preload(1, st0, page_data, fault) ELSE st0
    IN /\ lz_pc = "new"
       /\ preload_arg \/ fault = NoFault
       /\ self' = st.self
       /\ G' = st.G
       /\ loaded' = st.got
       /\ preloaded' = preload_arg
       /\ lz_pc' = IF st.kind = "ok" THEN "ready" ELSE "raised"
       /\ ret' = [op |-> "__init__", arg |-> "", kind |-> st.kind, val |-> None,
                  hit |-> FALSE, nreq |-> st.nreq, preload |-> preload_arg, fault |-> fault]
       /\ UNCHANGED <<page_data, focus, restLazy>>

\* the caller reads a property of the constructed page
Read ==
  \E prop \in Readable(focus), at \in 0..MaxFrags :
    LET r == getattr(self, prop, G, page_data, at)
        val == IF r.kind = "ok" THEN Returned(r.self, prop) ELSE Unset
    IN /\ lz_pc = "ready"
       /\ self' = r.self
       /\ G' = r.G
       /\ loaded' = IF r.kind = "ok" /\ prop \notin DOMAIN loaded
                    THEN Update(loaded, prop :> val) ELSE loaded
       /\ ret' = [op |-> "read", arg |-> prop, kind |-> r.kind, val |-> val,
                  hit |-> FALSE, nreq |-> r.nreq,
                  prior |-> IF prop \in DOMAIN loaded THEN Some(loaded[prop]) ELSE None]
       /\ UNCHANGED <<page_data, focus, preloaded, lz_pc, restLazy>>

NextLazy == Construct \/ Read

SpecLazy == InitLazy /\ [][NextLazy]_vars

(***************************************************************************)
(* Claims settled under SpecLazy.                                          *)
(***************************************************************************)
\* what the properties' docstrings say they need of the site
MinVersion(prop) ==
  CASE prop \in {"content", "revision_id", "parent_id"} -> <<1, 11>>
    [] prop \in {"references", "links"} -> <<1, 13>>
    [] prop = "categories" -> <<1, 14>>
    [] prop = "redirects" -> <<1, 24>>
    [] prop = "backlinks" -> <<1, 9>>
    [] OTHER -> <<0, 0>>

Extension(prop) ==
  CASE prop \in {"content", "revision_id", "parent_id", "summary"} -> {"TextExtracts"}
    [] prop = "coordinates" -> {"GeoData"}
    [] OTHER -> {}

\* the site lacks the version or the extension the property needs
Unsupported(prop, g) ==
  \/ _cmp_major_minor(g.API_VERSION_MAJOR_MINOR[1], MinVersion(prop))
  \/ ~(Extension(prop) \subseteq g.INSTALLED_EXTENSIONS[1])

\* the requests a complete load of the property sends
RequestsOf(prop, pd) ==
  IF prop \in {"images", "references", "links", "categories", "redirects", "backlinks"}
       /\ pd.frags > 1
  THEN pd.frags ELSE 1

\* the value a complete load of the property stores
Expected(prop, pd) ==
  IF prop \in {"content", "summary"} THEN Val(pd.extract)
  ELSE IF prop = "coordinates"
  THEN IF pd.coordinates THEN Val(<<"lat", "lon">>) ELSE PyNone
  ELSE Val(Listed(pd.frags))

\* C2: for every lazy field and every value its first load can produce (an
\* empty list, an empty string and no coordinates included), once an access
\* of the field has completed successfully every later access returns the
\* same value and sends no request.
C2_LoadedFieldIsCached ==
  (ret.op = "read" /\ ret.arg \in Props /\ ret.prior # None) =>
     (ret.kind = "ok" /\ ret.val = ret.prior[1] /\ ret.nreq = 0)

\* C8: the preload loop of the constructor passes over a property whose
\* access raises WikipediaAPIVersionError or WikipediaExtensionError, leaves
\* that field None and goes on to load the remaining properties; a failure
\* of any other kind (here: a request the endpoint does not answer) ends the
\* constructor with that exception.
C8_PreloadSwallowsOnlyGateErrors ==
  (ret.op = "__init__" /\ ret.preload) =>
    LET f == ret.fault
        hit == /\ f # NoFault
               /\ ~Unsupported(f.prop, G)
               /\ f.at <= RequestsOf(f.prop, page_data)
    IN IF hit
       THEN lz_pc = "raised" /\ ret.kind = "RequestError"
       ELSE /\ lz_pc = "ready" /\ ret.kind = "ok"
            /\ \A p \in Props :
                 self[Attr(p)] = IF Unsupported(p, G) THEN PyNone
                                 ELSE Expected(p, page_data)

\* a preload on a site too old for `redirects` that went on to load
\* `categories`, the last property of the loop
C8_Witness ==
  /\ ret.op = "__init__" /\ ret.preload /\ lz_pc = "ready"
  /\ Unsupported("redirects", G) /\ self["_redirects"] = PyNone
  /\ page_data.frags > 0 /\ self["_categories"] = Val(Listed(page_data.frags))

\* C9: on a page constructed with preload=True, reading a property the site
\* does not support (version too old or extension missing) returns None and
\* raises nothing.
C9_PreloadedUnsupportedReadsNone ==
  (ret.op = "read" /\ preloaded /\ ret.arg \in Props /\ Unsupported(ret.arg, G)) =>
     (ret.kind = "ok" /\ ret.val = PyNone)

\* C20: reading revision_id or parent_id on a page whose content has not
\* been loaded sends exactly one content request, after which content,
\* revision_id and parent_id hold the values of that one answer; read after
\* the content has been loaded, they send no request.
C20_RevisionIdsLoadContentOnce ==
  [][(lz_pc = "ready" /\ ret'.op = "read" /\ ret'.arg \in {"revision_id", "parent_id"}
        /\ ret'.kind = "ok") =>
       IF self["_content"] \in {Unset, PyNone}
       THEN /\ ret'.nreq = 1
            /\ self'["_content"] = Val(page_data.extract)
            /\ self'["_revision_id"] = Val(<<"revid">>)
            /\ self'["_parent_id"] = Val(<<"parentid">>)
       ELSE ret'.nreq = 0 /\ self' = self
     ]_vars

\* the list-valued fields filled round by round
ListFields == {"images", "references", "links", "categories", "redirects", "backlinks"}

\* C21: a list-valued lazy field never caches a partial result: when its
\* first load fails in round k > 1, the error propagates and a later access
\* starts a complete fresh load instead of returning the fragments gathered
\* before the failure.
C21_NoPartialListIsServed ==
  (lz_pc = "ready" /\ ret.op = "read" /\ ret.arg \in ListFields /\ ret.kind = "ok") =>
     ret.val = Val(Listed(page_data.frags))

(***************************************************************************)
(* Page resolution.  The upstream answers an info query about the page a   *)
(* title or a pageid names; the flags of the answer (the `missing` mark,   *)
(* a `redirects` section, a `pageprops` entry) are the upstream's choice.  *)
(***************************************************************************)
MaxHops == 2
MaxItems == 2

Flags == [missing : BOOLEAN, redirects : BOOLEAN, pageprops : BOOLEAN]

\* the page a query parameter names
Position(param) ==
  IF "pageids" \in DOMAIN param THEN param.pageids[2]
  ELSE IF param.titles = RawTitle THEN 1 ELSE param.titles[2]

\* the answer to the info query `param` with flags fl: a redirect entry
\* leads from the named page to the next one, whose record the answer then
\* holds; a raw title comes with a `normalized` entry
Answer(param, fl) ==
  LET k == Position(param)
      shown == IF fl.redirects THEN k + 1 ELSE k
  IN [missing |-> fl.missing,
      pageprops |-> fl.pageprops,
      redirects |-> IF fl.redirects THEN Some([from |-> Title(k), to |-> Title(k + 1)])
                    ELSE None,
      normalized |-> IF "titles" \in DOMAIN param /\ param.titles = RawTitle
                     THEN Some([from |-> RawTitle, to |-> Title(1)]) ELSE None,
      pageid |-> IF fl.missing THEN Id(-1) ELSE Id(shown),
      title |-> Title(shown),
      fullurl |-> Url(shown)]

\* the exceptions, as the attributes their constructors set
PageError(pageid, rest) ==
  IF pageid # None THEN [type |-> "PageError", pageid |-> pageid[1]]
  ELSE IF rest = <<>> THEN [type |-> "IndexError"]
  ELSE [type |-> "PageError", title |-> rest[1]]

RedirectError(title) == [type |-> "RedirectError", title |-> title]

DisambiguationError(title, may_refer_to, details) ==
  [type |-> "DisambiguationError", title |-> title, options |-> may_refer_to,
   details |-> details]

\* the <li> elements of a rendered disambiguation page: whether the class
\* marks a table-of-contents entry, whether the item holds an anchor and
\* whether that anchor has a title attribute
ListItems == {li \in [toc : BOOLEAN, anchor : BOOLEAN, titled : BOOLEAN] :
                li.titled => li.anchor}

RECURSIVE SeqsUpTo(_, _)
SeqsUpTo(S, n) ==
  IF n = 0 THEN {<<>>}
  ELSE LET shorter == SeqsUpTo(S, n - 1) IN
       shorter \cup {Append(q, x) : q \in {t \in shorter : Len(t) = n - 1}, x \in S}

Renderings == SeqsUpTo(ListItems, MaxItems)

\* lines 718-729: the exception the disambiguation branch ends in
Disambiguate(title, lis) ==
  LET ix == [i \in 1..Len(lis) |-> i]
      IsFiltered(i) == ~lis[i].toc
      HasAnchor(i) == lis[i].anchor
      Breaks(i) == ~lis[i].anchor \/ ~lis[i].titled
      filtered_lis == SelectSeq(ix, IsFiltered)
      may_refer_to == SelectSeq(filtered_lis, HasAnchor)
      broken == SelectSeq(filtered_lis, Breaks)
  IN IF broken = <<>>
     THEN DisambiguationError(title, may_refer_to, filtered_lis)
     ELSE IF ~lis[broken[1]].anchor THEN [type |-> "IndexError"]
     ELSE [type |-> "KeyError"]

\* __title_query_param
title_query_param(obj) ==
  IF obj["title"] \notin {Unset, PyNone} THEN [titles |-> obj["title"].v]
  ELSE [pageids |-> obj["pageid"].v]

\* the branch __load takes on an answer: the tests of lines 672, 680, 707
ClassifyPagepropsFirst(a) ==
  IF a.missing THEN "missing"
  ELSE IF a.pageprops THEN "disambiguation"
  ELSE IF a.redirects # None THEN "redirect"
  ELSE "ok"

\* (the redirect entry looked at before the missing mark)
ClassifyRedirectsFirst(a) ==
  IF a.redirects # None THEN "redirect"
  ELSE IF a.missing THEN "missing"
  ELSE IF a.pageprops THEN "disambiguation"
  ELSE "ok"

Classify(a) ==
  IF a.missing THEN "missing"
  ELSE IF a.redirects # None THEN "redirect"
  ELSE IF a.pageprops THEN "disambiguation"
  ELSE "ok"

\* the arguments of the recursive __init__ call of line 699
ReinitFrom(redirects, a) ==
  [title |-> Some(redirects.from), pageid |-> None, redirect |-> a.redirect,
   preload |-> a.preload]

Reinit(redirects, a) ==
  [title |-> Some(redirects.to), pageid |-> None, redirect |-> a.redirect,
   preload |-> a.preload]

\* the outcome handed to the caller of page() / WikipediaPage()
Raised(exc, log) ==
  [op |-> call.entry, arg |-> "", kind |-> exc.type, val |-> exc, hit |-> FALSE,
   nreq |-> Len(log)]

\* n entries `kind` of the request log
Sends(n, kind) == [i \in 1..n |-> kind]

(***************************************************************************)
(* Specification SpecLoad: one call of page() or of the constructor, run   *)
(* frame by frame against an upstream that answers every request.          *)
(***************************************************************************)
InitLoad ==
  /\ InitCfg
  /\ now = 0 /\ IdleCQ /\ sent_times = <<>> /\ IdleTree
  /\ ret = NoCall
  /\ self = <<>> /\ page_data = <<>>
  /\ focus = "" /\ loaded = <<>> /\ preloaded = FALSE /\ lz_pc = "off"
  /\ call = <<>> /\ args = <<>> /\ answers = <<>> /\ reqlog = <<>>
  /\ hops = 0 /\ frames = 0
  /\ ld_pc = "idle"

Identifiers == {"title", "pageid", "none"}

\* the title and pageid arguments of a call that names a page `by` a
\* title (raw or canonical), a pageid, or nothing
Named(by, raw) ==
  [title |-> IF by = "title" THEN Some(IF raw THEN RawTitle ELSE Title(1)) ELSE None,
   pageid |-> IF by = "pageid" THEN Some(Id(1)) ELSE None]

\* page(): `found` tells whether the search under auto_suggest yields a
\* title (the canonical one)
CallPage ==
  \E by \in Identifiers, raw, auto_suggest, redirect, preload_arg, found \in BOOLEAN :
    LET id == Named(by, raw)
        c == [entry |-> "page", by |-> by, title |-> id.title, pageid |-> id.pageid,
              auto_suggest |-> auto_suggest, redirect |-> redirect,
              preload |-> preload_arg]
        suggests == by = "title" /\ auto_suggest
        s == cache("search", SuggestKey("q"), G, fcache, search("q", G, fcache, 0, ""))
        log == IF suggests THEN Sends(s.nreq - 1, "siteinfo") \o <<"search">> ELSE <<>>
        exc == IF by = "none" THEN [type |-> "ValueError"]
               ELSE PageError(id.title, <<>>)
        raises == by = "none" \/ (suggests /\ ~found)
    IN /\ ld_pc = "idle"
       /\ by # "title" => ~raw /\ ~auto_suggest
       /\ ~suggests => found
       /\ call' = c
       /\ reqlog' = log
       /\ G' = IF suggests THEN s.G ELSE G
       /\ fcache' = IF suggests THEN s.C ELSE fcache
       /\ IF raises
          THEN /\ ld_pc' = "raised"
               /\ ret' = [op |-> "page", arg |-> "", kind |-> exc.type, val |-> exc,
                          hit |-> FALSE, nreq |-> Len(log)]
               /\ UNCHANGED args
          ELSE /\ ld_pc' = "init"
               /\ args' = IF by = "title"
                          THEN [title |-> IF suggests THEN Some(Title(1)) ELSE id.title,
                                pageid |-> None, redirect |-> redirect,
                                preload |-> preload_arg]
                          ELSE [title |-> None, pageid |-> id.pageid, redirect |-> TRUE,
                                preload |-> preload_arg]
               /\ UNCHANGED ret
       /\ UNCHANGED <<self, page_data, answers, hops, frames, restLoad>>

\* WikipediaPage(...) called directly
CallWikipediaPage ==
  \E by \in Identifiers, raw, redirect, preload_arg \in BOOLEAN :
    LET id == Named(by, raw) IN
    /\ ld_pc = "idle"
    /\ by # "title" => ~raw
    /\ call' = [entry |-> "WikipediaPage", by |-> by, title |-> id.title,
                pageid |-> id.pageid, auto_suggest |-> FALSE, redirect |-> redirect,
                preload |-> preload_arg]
    /\ args' = [title |-> id.title, pageid |-> id.pageid, redirect |-> redirect,
                preload |-> preload_arg]
    /\ ld_pc' = "init"
    /\ UNCHANGED <<G, fcache, ret, self, page_data, answers, reqlog, hops, frames, restLoad>>

\* __init__ up to its call of __load (lines 613-626)
WikipediaPage_init ==
  LET p == EnsureSiteInfo(G, fcache, 0)
      log == reqlog \o Sends(p.nreq, "siteinfo")
      obj == IF self = <<>> THEN [a \in Attributes |-> Unset] ELSE self
  IN /\ ld_pc = "init"
     /\ G' = p.G
     /\ reqlog' = log
     /\ IF p.kind # "ok"
        THEN /\ ld_pc' = "raised" /\ ret' = Raised([type |-> p.kind], log)
             /\ UNCHANGED self
        ELSE IF args.title # None
        THEN /\ self' = [obj EXCEPT !["title"] = Val(args.title[1]),
                                    !["original_title"] = Val(args.title[1])]
             /\ ld_pc' = "load" /\ UNCHANGED ret
        ELSE IF args.pageid # None
        THEN /\ self' = [obj EXCEPT !["pageid"] = Val(args.pageid[1])]
             /\ ld_pc' = "load" /\ UNCHANGED ret
        ELSE /\ ld_pc' = "raised" /\ ret' = Raised([type |-> "ValueError"], log)
             /\ self' = obj
     /\ UNCHANGED <<fcache, call, args, page_data, answers, hops, frames, restLoad>>

\* getattr(self, 'title', page['title'])
TitleOr(obj, a) == IF obj["title"] # Unset THEN obj["title"].v ELSE a.title

\* the redirect branch with following enabled (lines 682-699): the object
\* as the branch leaves it, and whether both assertions hold
FollowRedirect(obj, a) ==
  LET redirects == a.redirects[1]
      renamed == IF a.normalized = None /\ obj["title"] \in {Unset, PyNone, Val(<<>>)}
                 THEN [obj EXCEPT !["title"] = Val(redirects.from), !["pageid"] = Unset]
                 ELSE obj
      from_title == IF a.normalized # None THEN a.normalized[1].to ELSE renamed["title"].v
  IN [self |-> renamed,
      asserted |-> /\ a.normalized # None => a.normalized[1].from = obj["title"].v
                   /\ redirects.from = from_title]

\* __load (lines 650-734): one info query, answered with flags fl, and for
\* a disambiguation page the query of its rendering, answered with lis
WikipediaPage_load ==
  \E fl \in Flags, lis \in Renderings :
    LET a == Answer(title_query_param(self), fl)
        branch == Classify(a)
        log == reqlog \o <<"info">>
        follow == FollowRedirect(self, a)
        exc == CASE branch = "missing" ->
                      IF self["title"] # Unset THEN PageError(Some(self["title"].v), <<>>)
                      ELSE PageError(Some(self["pageid"].v), <<>>)
                 [] branch = "redirect" ->
                      IF args.redirect THEN [type |-> "AssertionError"]
                      ELSE RedirectError(TitleOr(self, a))
                 [] branch = "disambiguation" -> Disambiguate(TitleOr(self, a), lis)
                 [] OTHER -> [type |-> "ok"]
    IN /\ ld_pc = "load"
       /\ branch # "disambiguation" => lis = <<>>
       /\ (branch = "redirect" /\ args.redirect) => hops < MaxHops
       /\ answers' = Append(answers, fl)
       /\ IF branch = "redirect" /\ args.redirect /\ follow.asserted
          THEN /\ self' = follow.self
               /\ args' = Reinit(a.redirects[1], args)
               /\ hops' = hops + 1
               /\ frames' = frames + 1
               /\ reqlog' = log
               /\ ld_pc' = "init"
               /\ UNCHANGED ret
          ELSE IF branch = "ok"
          THEN /\ self' = [self EXCEPT !["pageid"] = Val(a.pageid),
                                       !["title"] = Val(a.title),
                                       !["url"] = Val(a.fullurl)]
               /\ reqlog' = log
               /\ ld_pc' = "tail"
               /\ UNCHANGED <<args, hops, frames, ret>>
          ELSE /\ reqlog' = IF branch = "disambiguation" THEN log \o <<"revisions">> ELSE log
               /\ ret' = Raised(exc, reqlog')
               /\ self' = IF branch = "redirect" /\ args.redirect THEN follow.self
                          ELSE self
               /\ ld_pc' = "raised"
               /\ UNCHANGED <<args, hops, frames>>
       /\ UNCHANGED <<G, fcache, call, page_data, restLoad>>

\* __init__ after __load has returned (lines 628-635), then the return: to
\* the __load of the frame below, which returns in turn, or to the caller;
\* pd is what the upstream holds for the page (nothing of it is fetched
\* without preload)
WikipediaPage_init_tail ==
  \E pd \in PageData :
    LET st0 == [kind |-> "ok", self |-> self, G |-> G, nreq |-> 0, got |-> <<>>]
        st == IF args.preload THEN preload(1, st0, pd, NoFault) ELSE st0
        log == reqlog \o Sends(st.nreq, "field")
    IN /\ ld_pc = "tail"
       /\ IF args.preload THEN page_data \in {<<>>, pd} ELSE pd.frags = 0
       /\ page_data' = IF args.preload THEN pd ELSE page_data
       /\ self' = st.self
       /\ G' = st.G
       /\ reqlog' = log
       /\ IF st.kind # "ok"
          THEN /\ ld_pc' = "raised" /\ ret' = Raised([type |-> st.kind], log)
               /\ UNCHANGED frames
          ELSE IF frames > 0
          THEN /\ frames' = frames - 1 /\ ld_pc' = "tail" /\ UNCHANGED ret
          ELSE /\ ld_pc' = "done" /\ UNCHANGED frames
               /\ ret' = [op |-> call.entry, arg |-> "", kind |-> "ok", val |-> None,
                          hit |-> FALSE, nreq |-> Len(log)]
       /\ UNCHANGED <<fcache, call, args, answers, hops, restLoad>>

NextLoad ==
  CallPage \/ CallWikipediaPage \/ WikipediaPage_init \/ WikipediaPage_load
    \/ WikipediaPage_init_tail

\* the calls run to completion: a frame that can take its next step takes it
SpecLoad == InitLoad /\ [][NextLoad]_vars /\ WF_vars(NextLoad)

(***************************************************************************)
(* Claims settled under SpecLoad.                                          *)
(***************************************************************************)
Ended == ld_pc \in {"done", "raised"}

InfoQueries == Len(SelectSeq(reqlog, LAMBDA k : k = "info"))

\* C4: when the upstream marks the requested identifier missing, resolution
\* fails with PageError, and the error carries the title in its `title`
\* attribute when the page was named by title and the pageid in its `pageid`
\* attribute when it was named by pageid.
C4_MissingRaisesPageErrorWithIdentifier ==
  (Ended /\ Len(answers) = 1 /\ answers[1].missing) =>
     /\ ret.kind = "PageError"
     /\ call.by = "title" =>
          "title" \in DOMAIN ret.val /\ ret.val.title \in {call.title[1], Title(1)}
     /\ call.by = "pageid" =>
          "pageid" \in DOMAIN ret.val /\ ret.val.pageid = call.pageid[1]

\* the state part of C5: with following enabled every answer but the last
\* was a redirect that was followed, one info query was sent per answer, and
\* the last answer decides the outcome
C5_Landing ==
  (Len(answers) >= 1 /\ args.redirect) =>
    LET n == Len(answers)
        last == answers[n]
    IN /\ InfoQueries = n
       /\ ld_pc \in {"init", "load"} => n = hops
       /\ ld_pc \in {"tail", "done"} =>
            /\ n = hops + 1
            /\ ~last.missing /\ ~last.redirects /\ ~last.pageprops
            /\ self["pageid"] = Val(Id(hops + 1))
            /\ self["title"] = Val(Title(hops + 1))
            /\ self["url"] = Val(Url(hops + 1))
       /\ ld_pc = "raised" =>
            /\ n = hops + 1
            /\ \/ last.missing /\ ret.kind = "PageError"
               \/ /\ ~last.missing /\ ~last.redirects /\ last.pageprops
                  /\ ret.kind \in {"DisambiguationError", "IndexError", "KeyError"}

\* C5: with redirect following enabled, resolving a title or a pageid whose
\* redirect chain has depth 2 (or any other depth) comes to an end; every hop
\* is classified on a fresh answer, and the object ends with the pageid,
\* title and url of the final page, or the call ends in the error of the
\* final hop.
C5_RedirectChainEndsAtFinalPage ==
  /\ [] C5_Landing
  /\ (ld_pc = "load" /\ args.redirect) ~> Ended

\* a title resolved through two redirects
C5_Witness ==
  /\ ld_pc = "done" /\ call.by = "title" /\ args.redirect
  /\ hops = 2 /\ Len(answers) = 3
  /\ self["title"] = Val(Title(3))

\* C6 as stated: constructed with following disabled, a first answer with a
\* redirect entry ends the constructor with RedirectError and no request is
\* sent after that first info query.
C6_RedirectEntryRaisesRedirectError ==
  (Ended /\ Len(answers) >= 1 /\ ~args.redirect /\ answers[1].redirects) =>
     /\ ret.kind = "RedirectError"
     /\ InfoQueries = 1 /\ reqlog[Len(reqlog)] = "info"

\* C6 amended: constructed with following disabled, a first answer that has
\* a redirect entry and does not mark the page missing ends the constructor
\* with RedirectError, and no request is sent after that first info query
\* (no recursion, no disambiguation fetch, no preload).
C6_RedirectEntryNotMissingRaisesRedirectError ==
  (Len(answers) >= 1 /\ ~args.redirect /\ answers[1].redirects /\ ~answers[1].missing) =>
     /\ ld_pc = "raised" /\ ret.kind = "RedirectError"
     /\ Len(answers) = 1 /\ hops = 0
     /\ InfoQueries = 1 /\ reqlog[Len(reqlog)] = "info"

\* a redirect that is also a disambiguation page, met with following
\* disabled and preload requested
C6_Witness ==
  /\ ld_pc = "raised" /\ ret.kind = "RedirectError"
  /\ ~args.redirect /\ args.preload
  /\ answers = <<[missing |-> FALSE, redirects |-> TRUE, pageprops |-> TRUE]>>

\* C7: page() called with redirect=False never returns a page reached by
\* following a redirect: by title or by pageid, when the requested page is a
\* redirect the call fails with RedirectError.
C7_PageNeverFollowsWhenDisabled ==
  (ld_pc # "idle" /\ call.entry = "page" /\ ~call.redirect) =>
     /\ ld_pc = "done" => hops = 0
     /\ (Ended /\ Len(answers) >= 1 /\ answers[1].redirects /\ ~answers[1].missing) =>
          ret.kind = "RedirectError"

\* C17: whenever the resolved page is not missing, has no redirect entry and
\* carries the disambiguation page-property, resolution fails with
\* DisambiguationError, whatever the list items of its rendering are (items
\* without an anchor, or whose anchor has no title attribute, included).
C17_DisambiguationAlwaysRaisesDisambiguationError ==
  (ld_pc \in {"raised", "done"} /\ Len(answers) >= 1
     /\ ~answers[Len(answers)].missing /\ ~answers[Len(answers)].redirects
     /\ answers[Len(answers)].pageprops)
    => ld_pc = "raised" /\ ret.kind = "DisambiguationError"

\* C19: each answer to the info query takes exactly one of four branches,
\* missing before redirect before disambiguation before ok: an answer that
\* is missing and has a redirect entry ends in PageError; one with a redirect
\* entry and the disambiguation property takes the redirect branch; and only
\* when none of the three applies is the object given pageid, title and url,
\* all three from that answer.
C19_ClassificationPrecedence ==
  [][(ld_pc = "load" /\ Len(answers') = Len(answers) + 1) =>
       LET fl == answers'[Len(answers')]
           a == Answer(title_query_param(self), fl)
           sent == SubSeq(reqlog', Len(reqlog) + 1, Len(reqlog'))
       IN /\ fl.missing =>
               ld_pc' = "raised" /\ ret'.kind = "PageError" /\ sent = <<"info">>
          /\ (~fl.missing /\ fl.redirects) =>
               /\ sent = <<"info">>
               /\ IF args.redirect
                  THEN \/ ld_pc' = "init" /\ hops' = hops + 1
                       \/ ld_pc' = "raised" /\ ret'.kind = "AssertionError"
                  ELSE ld_pc' = "raised" /\ ret'.kind = "RedirectError"
          /\ (~fl.missing /\ ~fl.redirects /\ fl.pageprops) =>
               ld_pc' = "raised" /\ sent = <<"info", "revisions">>
          /\ (~fl.missing /\ ~fl.redirects /\ ~fl.pageprops) =>
               /\ ld_pc' = "tail" /\ sent = <<"info">>
               /\ self'["pageid"] = Val(a.pageid)
               /\ self'["title"] = Val(a.title)
               /\ self'["url"] = Val(a.fullurl)
          /\ (fl.missing \/ fl.redirects \/ fl.pageprops) => self'["url"] = self["url"]
     ]_vars

\* an answer that is missing and has a redirect entry has ended in PageError
C19_Witness ==
  /\ ld_pc = "raised" /\ ret.kind = "PageError"
  /\ Len(answers) >= 1
  /\ answers[Len(answers)].missing /\ answers[Len(answers)].redirects

(***************************************************************************)
(* categorytree.  The result is a dict of nodes by category name, each     *)
(* with a dict of its sub-categories: here one function from the path of   *)
(* names that leads to an entry, to the node there or to None.             *)
(***************************************************************************)
MaxLevel == 3
MaxFailures == 2

CategoryNames == <<"A", "B", "C">>

\* the upstream's category graphs: the sub-categories of each category, as
\* categorymembers lists them (a chain, a category reached along two paths,
\* and two categories that hold each other)
CategoryGraphs ==
  { [A |-> <<"B">>, B |-> <<"C">>, C |-> <<>>],
    [A |-> <<"B", "C">>, B |-> <<"C">>, C |-> <<>>],
    [A |-> <<"B">>, B |-> <<"A">>, C |-> <<>>] }

IsIn(x, s) == \E i \in 1..Len(s) : s[i] = x

\* categorymembers(cat, 500, True): the pages and the sub-categories
Members(graph, cat) == << <<"page in " \o cat>>, graph[cat] >>

\* the .categories of the page 'Category:<cat>'
ParentCategories(graph, cat) ==
  SelectSeq(CategoryNames, LAMBDA c : IsIn(cat, graph[c]))

\* "if type(category) is not list: cats = [category]"
CategoryArgs == {[single |-> "A"], [list |-> <<"A", "B">>]}
cats(category) ==
  IF "list" \in DOMAIN category THEN category.list ELSE <<category.single>>

Depths == {-1, 0, 1, 2}

\* "tree[cat] = dict()" and the four entries set after it: whatever the
\* entry held before, sub-categories included, is replaced
IsUnder(q, p) == Len(q) > Len(p) /\ SubSeq(q, 1, Len(p)) = p

NewNode(tree, p, level) ==
  [q \in {x \in DOMAIN tree : ~IsUnder(x, p)} \cup {p} |->
     IF q = p THEN [depth |-> level, links |-> <<>>, parent_categories |-> <<>>]
     ELSE tree[q]]

\* (a test of the level alone)
UnexpandedFrom(level, depth) == level >= depth

\* "if level >= depth > 0": the sub-categories are entered as None
Unexpanded(level, depth) == level >= depth /\ depth > 0

\* the rest of __cat_tree_rec, once categories[cat] and links[cat] exist:
\* the node's lists are filled, and the sub-categories are either entered
\* as None or are the calls to make next, in order
Fill(tree, p, pages, lnks, depth) ==
  LET cat == p[Len(p)]
      subs == lnks[cat][2]
      below == [i \in 1..Len(subs) |-> Append(p, subs[i])]
      t1 == [tree EXCEPT ![p].parent_categories = pages[cat].categories.v,
                         ![p].links = lnks[cat][1]]
  IN IF Unexpanded(Len(p) - 1, depth)
     THEN [tree |-> [q \in DOMAIN t1 \cup {below[i] : i \in 1..Len(below)} |->
                       IF \E i \in 1..Len(below) : below[i] = q THEN PyNone ELSE t1[q]],
           calls |-> <<>>]
     ELSE [tree |-> t1, calls |-> below]

\* (a frame that returns after a failure instead of trying again)
GiveUp(w) == [w EXCEPT !.failures = @ + 1, !.pc = "walk", !.todo = Tail(@)]

\* "except Exception: time.sleep(1)", and the loop goes round
Retry(w) == [w EXCEPT !.failures = @ + 1]

(***************************************************************************)
(* Specification SpecTree: one call of categorytree against an upstream    *)
(* whose fetches may fail; a frame of __cat_tree_rec is a path to visit.   *)
(***************************************************************************)
InitTree ==
  /\ InitCfg /\ IdleCQ /\ IdleLazy /\ IdleLoad
  /\ ret = NoCall /\ now = 0 /\ sent_times = <<>>
  /\ results = <<>>
  /\ categories = <<>>
  /\ links = <<>>
  /\ \E graph \in CategoryGraphs :
       walk = [pc |-> "idle", graph |-> graph, depth |-> 0, todo |-> <<>>, failures |-> 0]

\* the call: one __cat_tree_rec(cat, depth, results, 0, ...) per root
CallCategorytree ==
  \E category \in CategoryArgs, depth \in Depths :
    /\ walk.pc = "idle"
    /\ walk' = [walk EXCEPT !.pc = "walk", !.depth = depth,
                            !.todo = [i \in 1..Len(cats(category)) |-> <<cats(category)[i]>>]]
    /\ UNCHANGED <<results, categories, links, ret, now, restTree>>

TreeOutcome(kind, tree, exc) ==
  [op |-> "categorytree", kind |-> kind, val |-> tree, exc |-> exc]

\* entering __cat_tree_rec for the next path: past the interpreter's
\* recursion limit the call raises; else the node is created and, when the
\* category was fetched before, filled
__cat_tree_rec ==
  /\ walk.pc = "walk" /\ walk.todo # <<>>
  /\ LET p == Head(walk.todo)
         t0 == NewNode(results, p, Len(p) - 1)
         f == Fill(t0, p, categories, links, walk.depth)
     IN IF Len(p) - 1 > MaxLevel
        THEN /\ walk' = [walk EXCEPT !.pc = "raised"]
             /\ ret' = TreeOutcome("RecursionError", None, None)
             /\ UNCHANGED results
        ELSE IF p[Len(p)] \in DOMAIN categories
        THEN /\ results' = f.tree
             /\ walk' = [walk EXCEPT !.todo = f.calls \o Tail(@)]
             /\ UNCHANGED ret
        ELSE /\ results' = t0
             /\ walk' = [walk EXCEPT !.pc = "fetch"]
             /\ UNCHANGED ret
  /\ UNCHANGED <<categories, links, now, restTree>>

\* the three fetches of the try block succeed; the frame goes on
FetchOk ==
  /\ walk.pc = "fetch"
  /\ LET p == Head(walk.todo)
         cat == p[Len(p)]
         pages == Update(categories,
                         cat :> [categories |-> Val(ParentCategories(walk.graph, cat))])
         lnks == Update(links, cat :> Members(walk.graph, cat))
         f == Fill(results, p, pages, lnks, walk.depth)
     IN /\ categories' = pages
        /\ links' = lnks
        /\ results' = f.tree
        /\ walk' = [walk EXCEPT !.pc = "walk", !.todo = f.calls \o Tail(@)]
  /\ UNCHANGED <<ret, now, restTree>>

\* page('Category:<cat>') raises PageError: "raise PageError(cat)"
FetchMissing ==
  /\ walk.pc = "fetch"
  /\ LET p == Head(walk.todo) IN
     ret' = TreeOutcome("PageError", None, Some(PageError(Some(p[Len(p)]), <<>>)))
  /\ walk' = [walk EXCEPT !.pc = "raised"]
  /\ UNCHANGED <<results, categories, links, now, restTree>>

\* one of the three fetches raises anything else: what was assigned before
\* it stays, the frame sleeps and tries again
FetchSteps == {"page", "categories", "categorymembers"}

FetchFails ==
  \E step \in FetchSteps :
    /\ walk.pc = "fetch"
    /\ walk.failures < MaxFailures
    /\ LET p == Head(walk.todo)
           cat == p[Len(p)]
       IN categories' =
            IF step = "page" THEN categories
            ELSE Update(categories,
                        cat :> [categories |->
                                  IF step = "categories" THEN Unset
                                  ELSE Val(ParentCategories(walk.graph, cat))])
    /\ walk' = Retry(walk)
    /\ now' = now + TicksPerSecond
    /\ UNCHANGED <<results, links, ret, restTree>>

\* "return results"
ReturnTree ==
  /\ walk.pc = "walk" /\ walk.todo = <<>>
  /\ walk' = [walk EXCEPT !.pc = "returned"]
  /\ ret' = TreeOutcome("ok", Some(results), None)
  /\ UNCHANGED <<results, categories, links, now, restTree>>

NextTree ==
  \/ CallCategorytree
  \/ __cat_tree_rec
  \/ FetchOk
  \/ FetchMissing
  \/ FetchFails
  \/ ReturnTree

SpecTree == InitTree /\ [][NextTree]_vars

(***************************************************************************)
(* Claims settled under SpecTree.                                          *)
(***************************************************************************)
\* the entries of a tree: the expanded nodes and the None entries
Expanded(tree) == {p \in DOMAIN tree : tree[p] # PyNone}
Nulls(tree) == {p \in DOMAIN tree : tree[p] = PyNone}

\* the entries the upstream's graph puts below the node at p
SubCategories(p) ==
  {Append(p, walk.graph[p[Len(p)]][i]) : i \in 1..Len(walk.graph[p[Len(p)]])}

Returned_tree == walk.pc = "returned" /\ ret.kind = "ok"

\* C13: in the tree categorytree returns, every expanded node records as
\* depth its distance from its root (0 for a root); with depth <= 0 no
\* sub-category entry is None and every sub-category of an expanded node is
\* expanded; with depth = d > 0 no expanded node is deeper than d and the None
\* entries are exactly the sub-categories of the nodes at depth d.
C13_TreeDepths ==
  Returned_tree =>
    LET tree == ret.val[1]
        d == walk.depth
    IN /\ \A p \in Expanded(tree) : tree[p].depth = Len(p) - 1
       /\ d <= 0 =>
            /\ Nulls(tree) = {}
            /\ \A p \in Expanded(tree) : SubCategories(p) \subseteq Expanded(tree)
       /\ d > 0 =>
            /\ \A p \in Expanded(tree) : tree[p].depth <= d
            /\ Nulls(tree) = UNION {SubCategories(p) : p \in {q \in Expanded(tree) : tree[q].depth = d}}

\* depth 1 on the chain A > B > C: A and B are expanded, C is None
C13_Witness ==
  /\ Returned_tree /\ walk.depth = 1
  /\ ret.val[1][<<"A", "B">>] # PyNone
  /\ <<"A", "B", "C">> \in Nulls(ret.val[1])

C14_WitnessMissing ==
  /\ walk.pc = "raised" /\ ret.kind = "PageError"
  /\ Len(Head(walk.todo)) > 1 /\ walk.failures > 0

\* C24: categorytree terminates for every finite category graph when all
\* fetches succeed, graphs with cycles included, for depth > 0 and for
\* depth <= 0: a walk that met no failing fetch never runs into the
\* interpreter's recursion limit.
C24_WalkWithoutFailuresTerminates ==
  ~(walk.pc = "raised" /\ ret.kind = "RecursionError" /\ walk.failures = 0)

(***************************************************************************)
(* WikipediaPage.section.  Text is a sequence of characters; positions     *)
(* count from 1.                                                           *)
(***************************************************************************)
MaxText == 4

Chars == {"=", " ", "a"}
Whitespace == {" "}

\* s.index(sub, start): the first position from `from` on where sub
\* occurs, None (ValueError) when there is none
index(s, sub, from) ==
  LET hits == {i \in from..(Len(s) - Len(sub) + 1) : SubSeq(s, i, i + Len(sub) - 1) = sub}
  IN IF hits = {} THEN None ELSE Some(CHOOSE i \in hits : \A j \in hits : i <= j)

\* (an lstrip that removes nothing)
lstrip_nothing(s, chars) == s

\* s.lstrip(chars) and s.strip()
lstrip(s, chars) ==
  LET kept == {i \in 1..Len(s) : s[i] \notin chars}
  IN IF kept = {} THEN <<>>
     ELSE SubSeq(s, CHOOSE i \in kept : \A j \in kept : i <= j, Len(s))

strip(s) ==
  LET kept == {i \in 1..Len(s) : s[i] \notin Whitespace}
  IN IF kept = {} THEN <<>>
     ELSE SubSeq(s, CHOOSE i \in kept : \A j \in kept : i <= j,
                    CHOOSE i \in kept : \A j \in kept : i >= j)

\* u"== {0} ==".format(section_title)
Heading(section_title) == <<"=", "=", " ">> \o section_title \o <<" ", "=", "=">>

\* section(section_title), on the text self.content returned
section(content, section_title) ==
  LET mark == Heading(section_title)
      found == index(content, mark, 1)
  IN IF found = None THEN None
     ELSE LET at == found[1] + Len(mark)
              nxt == index(content, <<"=", "=">>, at)
              next_index == IF nxt = None THEN Len(content) + 1 ELSE nxt[1]
          IN Some(strip(lstrip(SubSeq(content, at, next_index - 1), {"="})))

(***************************************************************************)
(* Specification SpecSection: section() called on a resolved page of the   *)
(* default endpoint, whose content the upstream holds.                     *)
(***************************************************************************)
SectionTitles == {<<"T">>, <<"U">>}

\* contents: a little text, then the heading of T, or most of it, or
\* nothing, then up to MaxText characters
Contents ==
  {pre \o mid \o post :
     pre \in SeqsUpTo({"=", "a"}, 1),
     mid \in {<<>>, Heading(<<"T">>), SubSeq(Heading(<<"T">>), 1, 6)},
     post \in SeqsUpTo(Chars, MaxText)}

restSection == <<fcache, stale, now, varsCQ, sent_times, varsLoad, varsTree,
                 page_data, focus, loaded, preloaded, lz_pc>>

InitSection ==
  /\ now = 0 /\ stale = {} /\ IdleCQ /\ sent_times = <<>> /\ IdleLoad /\ IdleTree
  /\ ret = NoCall
  /\ LET site == EnsureSiteInfo(InitGlobals, EmptyCaches, 0) IN G = site.G /\ fcache = site.C
  /\ self = Resolved
  /\ \E c \in Contents : page_data = [extract |-> c, frags |-> 0, coordinates |-> FALSE]
  /\ focus = "content"
  /\ loaded = <<>>
  /\ preloaded = FALSE
  /\ lz_pc = "ready"

\* section(): self.content is read (and loaded, if it was not), then cut
CallSection ==
  \E section_title \in SectionTitles :
    LET r == WikipediaPage_content(self, G, page_data, 0) IN
    /\ ret = NoCall
    /\ self' = r.self
    /\ G' = r.G
    /\ ret' = [op |-> "section", arg |-> section_title, kind |-> r.kind,
               val |-> IF r.kind = "ok" THEN section(r.self["_content"].v, section_title)
                       ELSE None,
               hit |-> FALSE, nreq |-> r.nreq]
    /\ UNCHANGED restSection

ReturnSection ==
  /\ ret # NoCall
  /\ ret' = NoCall
  /\ UNCHANGED <<G, self, restSection>>

NextSection == CallSection \/ ReturnSection

SpecSection == InitSection /\ [][NextSection]_vars

(***************************************************************************)
(* Claims settled under SpecSection.                                       *)
(***************************************************************************)
\* where the heading of the section asked for first occurs in the content,
\* and where the text after it ends: at the next "==" or at the end
Occurs(sub, s, i) == i + Len(sub) - 1 <= Len(s) /\ SubSeq(s, i, i + Len(sub) - 1) = sub

HeadingAt(i) ==
  /\ Occurs(Heading(ret.arg), page_data.extract, i)
  /\ \A j \in 1..(i - 1) : ~Occurs(Heading(ret.arg), page_data.extract, j)

EndsAt(from, to) ==
  /\ to \in from..(Len(page_data.extract) + 1)
  /\ to <= Len(page_data.extract) => Occurs(<<"=", "=">>, page_data.extract, to)
  /\ \A j \in from..(to - 1) : ~Occurs(<<"=", "=">>, page_data.extract, j)

\* text is body with every leading and trailing character of `chars` removed
TrimmedOf(text, body, chars) ==
  /\ text = <<>> \/ (text[1] \notin chars /\ text[Len(text)] \notin chars)
  /\ \E i \in 1..(Len(body) + 1) :
       /\ i + Len(text) - 1 <= Len(body)
       /\ text = SubSeq(body, i, i + Len(text) - 1)
       /\ \A j \in (1..(i - 1)) \cup ((i + Len(text))..Len(body)) : body[j] \in chars

\* text is body with its leading '=' removed, then the whitespace of both
\* ends
LeftTrimmedOf(text, body) ==
  \E k \in 0..Len(body) :
    /\ \A j \in 1..k : body[j] = "="
    /\ k < Len(body) => body[k + 1] # "="
    /\ TrimmedOf(text, SubSeq(body, k + 1, Len(body)), Whitespace)

SectionReturned == ret.op = "section" /\ ret.kind = "ok"

\* C18: section(title) on content C returns None when the literal
\* '== title ==' does not occur in C; otherwise it returns the text between
\* the first occurrence of that marker and the next occurrence of '==' (or
\* the end of C), with '=' characters and whitespace trimmed from both ends.
C18_SectionTrimsBothEnds ==
  SectionReturned =>
    /\ (\A i \in 1..Len(page_data.extract) : ~HeadingAt(i)) => ret.val = None
    /\ \A i \in 1..Len(page_data.extract), to \in 1..(Len(page_data.extract) + 1) :
         (HeadingAt(i) /\ EndsAt(i + Len(Heading(ret.arg)), to)) =>
            /\ ret.val # None
            /\ TrimmedOf(ret.val[1],
                         SubSeq(page_data.extract, i + Len(Heading(ret.arg)), to - 1),
                         {"="} \cup Whitespace)

\* C18 amended: ... with leading '=' characters removed and whitespace then
\* trimmed from both ends.
C18_SectionTrimsLeadingEquals ==
  SectionReturned =>
    /\ (\A i \in 1..Len(page_data.extract) : ~HeadingAt(i)) => ret.val = None
    /\ \A i \in 1..Len(page_data.extract), to \in 1..(Len(page_data.extract) + 1) :
         (HeadingAt(i) /\ EndsAt(i + Len(Heading(ret.arg)), to)) =>
            /\ ret.val # None
            /\ LeftTrimmedOf(ret.val[1],
                             SubSeq(page_data.extract, i + Len(Heading(ret.arg)), to - 1))

\* the heading sits inside a sub-heading ('=== T ==='), and the text after
\* it ends the content with a single '='
C18_Witness ==
  /\ SectionReturned /\ ret.arg = <<"T">>
  /\ page_data.extract = <<"=">> \o Heading(<<"T">>) \o <<"=", " ", "a", "=">>
  /\ ret.val = Some(<<"a", "=">>)

====
